---- MODULE Spec2Model ----
(***************************************************************************)
(* Market-Monitor (src/market_monitor.py): a polling loop that fetches a   *)
(* quote for each tracked asset, keeps a rolling window and a weekly high  *)
(* per asset, and sends one SMS per drop threshold that the last three     *)
(* samples stay under.                                                     *)
(*                                                                         *)
(* Prices are integers here.  The code compares floats,                    *)
(*     p <= weekly_high * (1 - drop / 100);                                *)
(* the model compares p * 100 <= weekly_high * (100 - drop), which gives   *)
(* the same answer as the float comparison for every value of Prices,      *)
(* Quotes and the saved records below.                                     *)
(***************************************************************************)
EXTENDS Integers, Sequences, FiniteSets, TLC

----------------------------------------------------------------------------
(* Bounds of the model *)

\* samples fed to one asset by direct calls of update_asset_data (UpdateSpec)
MaxSamples == 6
\* window sizes tried by UpdateSpec: 1..MaxWindow
MaxWindow == 3
\* polling cycles of run() (Spec)
MaxCycles == 2

\* sample values of UpdateSpec
Prices == {93, 94, 96, 100, 105}
\* values the quote provider returns in Spec (94 completes a pending drop of
\* 5% from 100 and is a first high for an asset without history)
Quotes == {94}

----------------------------------------------------------------------------
(* Program constants *)

assets == <<"S&P 500", "Bitcoin", "Ethereum", "Solana">>
AssetNames == {assets[i] : i \in 1..Len(assets)}

env_names == {"TWILIO_SID", "TWILIO_AUTH_TOKEN", "TWILIO_PHONE", "USER_PHONE"}

drop_levels == <<5, 10, 15, 20, 25>>
DropSet == {drop_levels[i] : i \in 1..Len(drop_levels)}

max_retries == 3
retry_delay == 60
\* PRICE_HISTORY_HOURS defaults to 3, and there are 12 checks per hour
default_history_hours == 3
checks_per_hour == 12
\* the number of trailing samples a drop must hold for
confirm_checks == 3

NoPrice == -1     \* get_price's None

----------------------------------------------------------------------------
VARIABLES
    env,                 \* which of the four environment variables are set
    storage,             \* the file at storage_path
    max_history_points,  \* int(price_history_hours * 12)
    market_data,         \* self.market_data: asset name -> state record
    pc,                  \* position of the process
    idx,                 \* index in assets of the asset being processed
    attempt,             \* get_price: the loop variable
    current_price,       \* run: the value get_price returned
    slept,               \* get_price: seconds slept in the current call
    now,                 \* logical clock behind datetime.now()
    cycle,               \* number of the current pass of the while loop
    events,              \* history: new highs and alert sends, in order
    fed,                 \* history: samples update_asset_data processed, per asset
    loaded,              \* history: what _load_market_data returned
    last,                \* history: the latest update_asset_data call
    stats                \* history: counters of the scheduler

vars == <<env, storage, max_history_points, market_data, pc, idx, attempt,
          current_price, slept, now, cycle, events, fed, loaded, last, stats>>

----------------------------------------------------------------------------
(* Asset state records *)

\* lines 61-66: the record of an asset that has no history
default_state(t) ==
    [weekly_high |-> 0, confirmed_drops |-> <<>>, recent_prices |-> <<>>,
     last_update |-> t]

\* Records an earlier run of the program has written to the file.
\* saved_drop5: samples 100 94 94 94 with a window of at least 4.
saved_drop5 ==
    [weekly_high |-> 100, confirmed_drops |-> <<5>>,
     recent_prices |-> <<100, 94, 94, 94>>, last_update |-> 0]
\* saved_deep: samples 125 94 94 94 with a window of at least 4.
saved_deep ==
    [weekly_high |-> 125, confirmed_drops |-> <<5, 10, 15, 20>>,
     recent_prices |-> <<125, 94, 94, 94>>, last_update |-> 0]
\* saved_pending: samples 100 94 94.
saved_pending ==
    [weekly_high |-> 100, confirmed_drops |-> <<>>,
     recent_prices |-> <<100, 94, 94>>, last_update |-> 0]

----------------------------------------------------------------------------
(* Helpers *)

SeqToSet(s) == {s[i] : i \in 1..Len(s)}

RECURSIVE SeqMax(_)
SeqMax(s) ==
    IF Len(s) = 1 THEN s[1]
    ELSE LET m == SeqMax(Tail(s)) IN IF s[1] >= m THEN s[1] ELSE m

\* Python's s[-n:]
PySuffix(s, n) ==
    IF n > 0
    THEN IF Len(s) <= n THEN s ELSE SubSeq(s, Len(s) - n + 1, Len(s))
    ELSE IF n = 0 THEN s
    ELSE SubSeq(s, 1 - n, Len(s))

----------------------------------------------------------------------------
(* update_asset_data and check_price_drops *)

\* trim_history keeping the oldest samples instead of the newest
trim_history_oldest(prices, max_points) ==
    IF Len(prices) > max_points THEN SubSeq(prices, 1, max_points) ELSE prices

\* lines 115-116: keep the newest max_points samples
trim_history(prices, max_points) ==
    IF Len(prices) > max_points THEN PySuffix(prices, max_points) ELSE prices

\* is_new_high without the comparison with the weekly high
is_new_high_window_only(price, data) ==
    price = SeqMax(data.recent_prices)

\* is_new_high with >= for >
is_new_high_or_equal(price, data) ==
    price >= data.weekly_high /\ price = SeqMax(data.recent_prices)

\* line 119: the sample is above the weekly high and is the window's maximum
is_new_high(price, data) ==
    price > data.weekly_high /\ price = SeqMax(data.recent_prices)

\* at_or_below with the threshold price on the wrong side of the high
at_or_below_above(p, weekly_high, drop) ==
    p * 100 <= weekly_high * (100 + drop)

\* lines 135 and 139: p <= weekly_high * (1 - drop / 100)
at_or_below(p, weekly_high, drop) ==
    p * 100 <= weekly_high * (100 - drop)

\* drop_condition looking at the last two samples only
drop_condition_last2(drop, data) ==
    /\ Len(data.recent_prices) >= confirm_checks
    /\ \A p \in SeqToSet(PySuffix(data.recent_prices, 2)) :
           at_or_below(p, data.weekly_high, drop)
    /\ drop \notin SeqToSet(data.confirmed_drops)

\* drop_condition looking at the newest sample only
drop_condition_latest(drop, data) ==
    /\ Len(data.recent_prices) >= confirm_checks
    /\ at_or_below(data.recent_prices[Len(data.recent_prices)],
                   data.weekly_high, drop)
    /\ drop \notin SeqToSet(data.confirmed_drops)

\* drop_condition without the test of confirmed_drops
drop_condition_repeat(drop, data) ==
    /\ Len(data.recent_prices) >= confirm_checks
    /\ \A p \in SeqToSet(PySuffix(data.recent_prices, confirm_checks)) :
           at_or_below(p, data.weekly_high, drop)

\* lines 138-140: the condition under which drop is alerted
drop_condition(drop, data) ==
    /\ Len(data.recent_prices) >= confirm_checks
    /\ \A p \in SeqToSet(PySuffix(data.recent_prices, confirm_checks)) :
           at_or_below(p, data.weekly_high, drop)
    /\ drop \notin SeqToSet(data.confirmed_drops)

\* lines 134-143: the loop over drop_levels from position i on; alerts are
\* the send_alert calls made so far, in order
RECURSIVE check_from(_, _, _, _, _)
check_from(i, asset, price, data, alerts) ==
    IF i > Len(drop_levels) THEN [data |-> data, alerts |-> alerts]
    ELSE LET drop == drop_levels[i] IN
         IF drop_condition(drop, data)
         THEN check_from(i + 1, asset, price,
                         [data EXCEPT !.confirmed_drops = Append(@, drop)],
                         Append(alerts, [asset |-> asset, drop_level |-> drop,
                                         price |-> price]))
         ELSE check_from(i + 1, asset, price, data, alerts)

\* check_price_drops leaving the loop after the first alert it sends
check_price_drops_first_only(asset, price, data) ==
    LET hit == {i \in 1..Len(drop_levels) : drop_condition(drop_levels[i], data)}
    IN  IF hit = {} THEN [data |-> data, alerts |-> <<>>]
        ELSE LET i == CHOOSE k \in hit : \A m \in hit : k <= m
             IN  [data |-> [data EXCEPT
                              !.confirmed_drops = Append(@, drop_levels[i])],
                  alerts |-> <<[asset |-> asset, drop_level |-> drop_levels[i],
                                price |-> price]>>]

\* lines 130-143
check_price_drops(asset, price, data) ==
    check_from(1, asset, price, data, <<>>)

\* lines 113-122: the window and the weekly high after the sample
append_sample(price, data, max_points) ==
    LET d1 == [data EXCEPT
                 !.recent_prices = trim_history(Append(@, price), max_points)]
    IN  IF is_new_high(price, d1)
        THEN [d1 EXCEPT !.weekly_high = price, !.confirmed_drops = <<>>]
        ELSE d1

\* lines 108-128: the state after the call and the alerts it sends
update_asset_data(asset, price, data, max_points, t) ==
    LET r == check_price_drops(asset, price, append_sample(price, data, max_points))
    IN  [data |-> [r.data EXCEPT !.last_update = t], alerts |-> r.alerts]

----------------------------------------------------------------------------
(* Storage *)

AllDefault(t) == [a \in AssetNames |-> default_state(t)]

NoFile == [kind |-> "absent", doc |-> <<>>]
BadFile == [kind |-> "unreadable", doc |-> <<>>]
Document(d) == [kind |-> "document", doc |-> d]

\* lines 49-66: the file's mapping as it is when the file exists and parses,
\* defaults for every asset otherwise
load_market_data(file, t) ==
    IF file.kind = "document" THEN file.doc ELSE AllDefault(t)

----------------------------------------------------------------------------
(* History bookkeeping shared by the two specifications *)

NoCall ==
    [called |-> FALSE, asset |-> "", price |-> 0, pre |-> default_state(0),
     alerts |-> <<>>, delivered |-> <<>>]

HighEvent(asset, price) ==
    [kind |-> "high", asset |-> asset, level |-> 0, price |-> price,
     delivered |-> TRUE]
AlertEvent(alert, ok) ==
    [kind |-> "alert", asset |-> alert.asset, level |-> alert.drop_level,
     price |-> alert.price, delivered |-> ok]

\* CallUpdate confirming a threshold only when its alert was delivered
CallUpdate_retry_failed(asset, price) ==
    LET pre == market_data[asset]
        r == update_asset_data(asset, price, pre, max_history_points, now)
    IN  \E ok \in [1..Len(r.alerts) -> BOOLEAN] :
          LET undelivered == {r.alerts[i].drop_level :
                                 i \in {k \in 1..Len(r.alerts) : ~ok[k]}}
          IN
          /\ market_data' = [market_data EXCEPT ![asset] =
                 [r.data EXCEPT !.confirmed_drops =
                     SelectSeq(@, LAMBDA d : d \notin undelivered)]]
          /\ events' = events
                 \o (IF r.data.weekly_high # pre.weekly_high
                     THEN <<HighEvent(asset, r.data.weekly_high)>> ELSE <<>>)
                 \o [i \in 1..Len(r.alerts) |-> AlertEvent(r.alerts[i], ok[i])]
          /\ fed' = [fed EXCEPT ![asset] = Append(@, price)]
          /\ last' = [called |-> TRUE, asset |-> asset, price |-> price,
                      pre |-> pre, alerts |-> r.alerts, delivered |-> ok]
          /\ now' = now + 1

\* One call update_asset_data(asset, price) on self.market_data; send_alert
\* (lines 90-106) delivers each message or fails, and swallows the failure.
CallUpdate(asset, price) ==
    LET pre == market_data[asset]
        r == update_asset_data(asset, price, pre, max_history_points, now)
    IN  \E ok \in [1..Len(r.alerts) -> BOOLEAN] :
          /\ market_data' = [market_data EXCEPT ![asset] = r.data]
          /\ events' = events
                 \o (IF r.data.weekly_high # pre.weekly_high
                     THEN <<HighEvent(asset, r.data.weekly_high)>> ELSE <<>>)
                 \o [i \in 1..Len(r.alerts) |-> AlertEvent(r.alerts[i], ok[i])]
          /\ fed' = [fed EXCEPT ![asset] = Append(@, price)]
          /\ last' = [called |-> TRUE, asset |-> asset, price |-> price,
                      pre |-> pre, alerts |-> r.alerts, delivered |-> ok]
          /\ now' = now + 1

----------------------------------------------------------------------------
(* UpdateSpec: a constructed monitor whose update_asset_data is called      *)
(* directly with a stream of samples for one asset.  The window size       *)
(* int(price_history_hours * 12) ranges over 1..MaxWindow, as it does with  *)
(* price_history_hours set to a fraction of an hour on the object (0.25    *)
(* gives 3); from the environment the sizes are multiples of 12.            *)

StreamAsset == "Bitcoin"

StreamFiles ==
    { NoFile,
      Document([AllDefault(0) EXCEPT ![StreamAsset] = saved_drop5]),
      Document([AllDefault(0) EXCEPT ![StreamAsset] = saved_deep]) }

\* the counters before anything has run (persisted_at: the cycle of the
\* latest successful save, 0 for the load, -1 once a write has failed
\* part-way); the per-cycle fields are reset by
\* BeginCycle, the per-call field call by the step that ends the call
NoStats ==
    [tests |-> 0, test_ok |-> FALSE, fetches |-> 0, updates |-> 0,
     saves |-> 0, call |-> <<>>, cycle_start |-> <<>>, events_at_start |-> 0,
     fetched |-> {}, failed |-> {}, updated |-> {}, cycle_saves |-> 0,
     persisted_at |-> 0]

InitUpdate ==
    /\ env = [n \in env_names |-> TRUE]
    /\ storage \in StreamFiles
    /\ max_history_points \in 1..MaxWindow
    /\ now = 2
    /\ market_data = load_market_data(storage, 1)
    /\ loaded = market_data
    /\ pc = "direct"
    /\ idx = 1
    /\ attempt = 0
    /\ current_price = NoPrice
    /\ slept = 0
    /\ cycle = 0
    /\ events = <<>>
    /\ fed = [a \in AssetNames |-> <<>>]
    /\ last = NoCall
    /\ stats = NoStats

Sample(p) ==
    /\ pc = "direct"
    /\ Len(fed[StreamAsset]) < MaxSamples
    /\ CallUpdate(StreamAsset, p)
    /\ UNCHANGED <<env, storage, max_history_points, pc, idx, attempt,
                   current_price, slept, cycle, loaded, stats>>

NextUpdate == \E p \in Prices : Sample(p)

UpdateSpec == InitUpdate /\ [][NextUpdate]_vars

----------------------------------------------------------------------------
(* FreshSpec: update_asset_data called directly on an asset without        *)
(* history, with non-negative samples (a quote of 0 included)              *)

FreshPrices == {0, 93, 100, 105}

InitFresh == InitUpdate /\ storage = NoFile

NextFresh == \E p \in FreshPrices : Sample(p)

FreshSpec == InitFresh /\ [][NextFresh]_vars

----------------------------------------------------------------------------
(* Spec: the process, from construction through the polling loop *)

\* any in place of all in the test of the environment
config_ok_any(e) == \E n \in env_names : e[n]

\* line 25: all four environment variables are set
config_ok(e) == \A n \in env_names : e[n]

\* the sleep of line 87 taken after every failed attempt
sleeps_after_failure_always(a) == TRUE

\* line 86: a failed attempt is followed by a sleep unless it was the last
sleeps_after_failure(a) == a < max_retries - 1

\* Files the process may find at storage_path: none, one that does not
\* parse, one an earlier run saved, and one saved when only the first two
\* assets were tracked.
SavedFull ==
    Document([a \in AssetNames |->
                 IF a \in {assets[1], assets[3]} THEN saved_pending
                 ELSE default_state(0)])
SavedPartial ==
    Document([a \in {assets[1], assets[2]} |-> saved_pending])
StartFiles == {NoFile, BadFile, SavedFull, SavedPartial}

Init ==
    /\ env \in [env_names -> BOOLEAN]
    /\ storage \in StartFiles
    /\ max_history_points = default_history_hours * checks_per_hour
    /\ now = 1
    /\ market_data = <<>>
    /\ loaded = <<>>
    /\ pc = "start"
    /\ idx = 1
    /\ attempt = 0
    /\ current_price = NoPrice
    /\ slept = 0
    /\ cycle = 0
    /\ events = <<>>
    /\ fed = [a \in AssetNames |-> <<>>]
    /\ last = NoCall
    /\ stats = NoStats

\* lines 18-47 and 186-192: __init__ raises when the environment is
\* incomplete, and loads the market data otherwise
Construct ==
    /\ pc = "start"
    /\ IF config_ok(env)
       THEN /\ market_data' = load_market_data(storage, now)
            /\ loaded' = market_data'
            /\ now' = now + 1
            /\ pc' = "test"
       ELSE /\ pc' = "fatal"
            /\ UNCHANGED <<market_data, loaded, now>>
    /\ UNCHANGED <<env, storage, max_history_points, idx, attempt,
                   current_price, slept, cycle, events, fed, last, stats>>

\* history: the snapshot a cycle starts from
BeginCycle(st) ==
    [st EXCEPT !.cycle_start = market_data, !.events_at_start = Len(events),
               !.fetched = {}, !.failed = {}, !.updated = {}, !.call = <<>>,
               !.cycle_saves = 0]

\* lines 145-154 and 164, 168: the test message is sent, the loop is entered
TestTwilioOk ==
    /\ pc = "test"
    /\ stats' = BeginCycle([stats EXCEPT !.tests = @ + 1, !.test_ok = TRUE])
    /\ pc' = "fetch"
    /\ cycle' = 1
    /\ idx' = 1
    /\ attempt' = 0
    /\ slept' = 0
    /\ UNCHANGED <<env, storage, max_history_points, market_data,
                   current_price, now, events, fed, loaded, last>>

\* lines 155-157 and 164-166: the test message fails, run raises
TestTwilioFail ==
    /\ pc = "test"
    /\ stats' = [stats EXCEPT !.tests = @ + 1, !.test_ok = FALSE]
    /\ pc' = "fatal"
    /\ UNCHANGED <<env, storage, max_history_points, market_data, idx,
                   attempt, current_price, slept, now, cycle, events, fed,
                   loaded, last>>

\* lines 79-83: an attempt of get_price succeeds and the price is returned
FetchOk(q) ==
    /\ pc = "fetch"
    /\ attempt < max_retries
    /\ current_price' = q
    /\ attempt' = attempt + 1
    /\ pc' = "got"
    /\ stats' = [stats EXCEPT !.fetches = @ + (IF attempt = 0 THEN 1 ELSE 0), !.call = Append(@, q),
                              !.fetched = @ \cup {assets[idx]}]
    /\ UNCHANGED <<env, storage, max_history_points, market_data, idx, slept,
                   now, cycle, events, fed, loaded, last>>

\* lines 84-88: an attempt fails; it is followed by a sleep and another
\* attempt, or, when the attempts are used up, by the return of None
FetchFail ==
    /\ pc = "fetch"
    /\ attempt < max_retries
    /\ attempt' = attempt + 1
    /\ slept' = IF sleeps_after_failure(attempt) THEN slept + retry_delay
                ELSE slept
    /\ IF attempt + 1 < max_retries
       THEN /\ UNCHANGED <<pc, current_price>>
            /\ stats' = [stats EXCEPT !.fetches = @ + (IF attempt = 0 THEN 1 ELSE 0),
                                      !.call = Append(@, NoPrice),
                                      !.fetched = @ \cup {assets[idx]}]
       ELSE /\ pc' = "got"
            /\ current_price' = NoPrice
            /\ stats' = [stats EXCEPT !.fetches = @ + (IF attempt = 0 THEN 1 ELSE 0),
                                      !.call = Append(@, NoPrice),
                                      !.fetched = @ \cup {assets[idx]},
                                      !.failed = @ \cup {assets[idx]}]
    /\ UNCHANGED <<env, storage, max_history_points, market_data, idx, now,
                   cycle, events, fed, loaded, last>>

\* line 170: the for loop moves to the next asset, or ends before line 179
NextAsset ==
    IF idx < Len(assets)
    THEN /\ idx' = idx + 1
         /\ pc' = "fetch"
         /\ attempt' = 0
         /\ slept' = 0
    ELSE /\ pc' = "save"
         /\ UNCHANGED <<idx, attempt, slept>>

\* lines 173-175: the price is there and the asset has a record
UpdateAsset ==
    /\ pc = "got"
    /\ current_price # NoPrice
    /\ assets[idx] \in DOMAIN market_data
    /\ CallUpdate(assets[idx], current_price)
    /\ NextAsset
    /\ stats' = [stats EXCEPT !.updates = @ + 1, !.call = <<>>,
                              !.updated = @ \cup {assets[idx]}]
    /\ UNCHANGED <<env, storage, max_history_points, current_price, cycle,
                   loaded>>

\* lines 110 and 181-182: self.market_data[asset] raises KeyError, which
\* the handler of the loop body catches: the rest of the cycle is skipped
UpdateKeyError ==
    /\ pc = "got"
    /\ current_price # NoPrice
    /\ assets[idx] \notin DOMAIN market_data
    /\ pc' = "sleep"
    /\ UNCHANGED <<env, storage, max_history_points, market_data, idx,
                   attempt, current_price, slept, now, cycle, events, fed,
                   loaded, last, stats>>

\* lines 176-177: get_price returned None, the asset is skipped
SkipAsset ==
    /\ pc = "got"
    /\ current_price = NoPrice
    /\ NextAsset
    /\ stats' = [stats EXCEPT !.call = <<>>]
    /\ UNCHANGED <<env, storage, max_history_points, market_data,
                   current_price, now, cycle, events, fed, loaded, last>>

\* SaveOk reporting success without replacing the file
SaveOk_unwritten ==
    /\ pc = "save"
    /\ pc' = "sleep"
    /\ stats' = [stats EXCEPT !.saves = @ + 1, !.cycle_saves = @ + 1,
                              !.persisted_at = cycle]
    /\ UNCHANGED <<env, storage, max_history_points, market_data, idx,
                   attempt, current_price, slept, now, cycle, events, fed,
                   loaded, last>>

\* lines 68-73: the whole mapping replaces the file
SaveOk ==
    /\ pc = "save"
    /\ storage' = Document(market_data)
    /\ pc' = "sleep"
    /\ stats' = [stats EXCEPT !.saves = @ + 1, !.cycle_saves = @ + 1,
                              !.persisted_at = cycle]
    /\ UNCHANGED <<env, max_history_points, market_data, idx, attempt,
                   current_price, slept, now, cycle, events, fed, loaded, last>>

\* lines 71, 74-75: open fails, the file is as it was
SaveOpenFails ==
    /\ pc = "save"
    /\ pc' = "sleep"
    /\ stats' = [stats EXCEPT !.saves = @ + 1, !.cycle_saves = @ + 1]
    /\ UNCHANGED <<env, storage, max_history_points, market_data, idx,
                   attempt, current_price, slept, now, cycle, events, fed,
                   loaded, last>>

\* lines 71-75: open has truncated the file and the write fails part-way
SaveWriteFails ==
    /\ pc = "save"
    /\ storage' = BadFile
    /\ pc' = "sleep"
    /\ stats' = [stats EXCEPT !.saves = @ + 1, !.cycle_saves = @ + 1,
                              !.persisted_at = -1]
    /\ UNCHANGED <<env, max_history_points, market_data, idx, attempt,
                   current_price, slept, now, cycle, events, fed, loaded, last>>

\* lines 184 and 168-170: the sleep ends and the next cycle starts
Sleep ==
    /\ pc = "sleep"
    /\ cycle < MaxCycles
    /\ cycle' = cycle + 1
    /\ pc' = "fetch"
    /\ idx' = 1
    /\ attempt' = 0
    /\ slept' = 0
    /\ stats' = BeginCycle(stats)
    /\ UNCHANGED <<env, storage, max_history_points, market_data,
                   current_price, now, events, fed, loaded, last>>

Next ==
    \/ Construct
    \/ TestTwilioOk
    \/ TestTwilioFail
    \/ \E q \in Quotes : FetchOk(q)
    \/ FetchFail
    \/ UpdateAsset
    \/ UpdateKeyError
    \/ SkipAsset
    \/ SaveOk
    \/ SaveOpenFails
    \/ SaveWriteFails
    \/ Sleep

Spec == Init /\ [][Next]_vars

----------------------------------------------------------------------------
(* Claims about update_asset_data, checked under UpdateSpec *)

\* the state of the asset of the latest call, after the call
Post == market_data[last.asset]
Raised == Post.weekly_high > last.pre.weekly_high
AlertedInLast(d) == \E i \in 1..Len(last.alerts) : last.alerts[i].drop_level = d
\* the last three samples of the window are all <= weekly_high * (1 - d/100)
Last3Under(w, high, d) ==
    /\ Len(w) >= 3
    /\ \A k \in 0..2 : w[Len(w) - k] * 100 <= high * (100 - d)
IsPrefix(s, t) == Len(s) <= Len(t) /\ \A i \in 1..Len(s) : s[i] = t[i]
AlertEvents(a, d) ==
    {i \in 1..Len(events) :
        events[i].kind = "alert" /\ events[i].asset = a /\ events[i].level = d}
HighEvents(a) ==
    {i \in 1..Len(events) : events[i].kind = "high" /\ events[i].asset = a}

\* C1: in every update_asset_data call, for each threshold d, an alert for d
\* is sent in that call if and only if, after the sample is appended and the
\* high recomputed, the window holds at least 3 samples, its last 3 samples
\* are all <= weekly_high*(1-d/100), and d is not in confirmed_drops (which
\* the recomputation has emptied when it raised the high).
C1_AlertIffCondition ==
    last.called =>
        LET conf == IF Raised THEN {} ELSE SeqToSet(last.pre.confirmed_drops)
        IN  \A d \in DropSet :
                AlertedInLast(d) <=>
                    (Last3Under(Post.recent_prices, Post.weekly_high, d)
                     /\ d \notin conf)

\* C1 witness: a call that sent an alert for one threshold while another
\* threshold, whose price condition also held, was already confirmed and
\* was not alerted again.
C1_Witness ==
    /\ last.called
    /\ last.alerts # <<>>
    /\ \E d \in SeqToSet(last.pre.confirmed_drops) :
          /\ ~Raised
          /\ Last3Under(Post.recent_prices, Post.weekly_high, d)
          /\ ~AlertedInLast(d)

\* C2: each threshold triggers send_alert at most once between two
\* consecutive increases of weekly_high: two alerts of one asset for the
\* same threshold always have an increase of its weekly high between them.
C2_OncePerEpoch ==
    \A a \in AssetNames : \A d \in DropSet :
        \A i, j \in AlertEvents(a, d) :
            i < j => \E k \in HighEvents(a) : i < k /\ k < j

\* C2 witness: threshold 5 was alerted by an earlier call, and a later call
\* in the same epoch saw the condition still hold and sent nothing.
C2_Witness ==
    /\ last.called
    /\ last.alerts = <<>>
    /\ AlertEvents(last.asset, 5) # {}
    /\ \A i \in AlertEvents(last.asset, 5) : \A k \in HighEvents(last.asset) : k < i
    /\ Last3Under(Post.recent_prices, Post.weekly_high, 5)

\* C3: for positive samples, weekly_high after an update is >= weekly_high
\* before it, and the highs recorded for an asset only grow.
C3_HighNeverDecreases ==
    /\ last.called /\ last.price > 0 =>
           Post.weekly_high >= last.pre.weekly_high
    /\ \A a \in AssetNames : \A i, j \in HighEvents(a) :
           i < j => events[i].price < events[j].price

\* C3 witness: the high was raised by one call of this run and a later call
\* with a lower sample left it where it was.
C3_Witness ==
    /\ last.called
    /\ HighEvents(last.asset) # {}
    /\ last.price > 0
    /\ last.price < last.pre.weekly_high
    /\ Post.weekly_high = last.pre.weekly_high

\* C4: after every update len(recent_prices) <= window_size, for any
\* window_size >= 1 and any prior contents, and the samples kept are the
\* newest ones of (prior contents, then the samples fed) in arrival order.
C4_WindowBounded ==
    last.called /\ max_history_points >= 1 =>
        LET a == last.asset
            all == loaded[a].recent_prices \o fed[a]
            w == market_data[a].recent_prices
            n == IF Len(all) < max_history_points THEN Len(all)
                 ELSE max_history_points
        IN  /\ Len(w) <= max_history_points
            /\ Len(w) = n
            /\ \A i \in 1..n : w[i] = all[Len(all) - n + i]

\* C4 witness: the loaded window was longer than the configured size, and
\* samples fed since have pushed older fed samples out as well.
C4_Witness ==
    /\ last.called
    /\ Len(loaded[last.asset].recent_prices) > max_history_points
    /\ Len(fed[last.asset]) > max_history_points
    /\ Len(Post.recent_prices) = max_history_points

Scenario5 == <<100, 100, 100, 96, 94, 93>>
FreshStream == storage = NoFile /\ max_history_points = 3

\* C5 as claimed: window 3, zero-valued start: after 100,100,100 weekly_high
\* is 100; feeding 96, 94, 93 next, the update for 93 sends the alert for
\* threshold 5, that alert is sent exactly once over the whole sequence, and
\* no alert for threshold 10 is sent.
C5_Scenario ==
    LET f == fed[StreamAsset]
        n == Len(f)
    IN  FreshStream /\ n \in 3..Len(Scenario5) /\ f = SubSeq(Scenario5, 1, n) =>
            /\ market_data[StreamAsset].weekly_high = 100
            /\ AlertEvents(StreamAsset, 10) = {}
            /\ n < 6 => AlertEvents(StreamAsset, 5) = {}
            /\ n = 6 =>
                 /\ Cardinality(AlertEvents(StreamAsset, 5)) = 1
                 /\ Len(last.alerts) = 1
                 /\ last.alerts[1] =
                        [asset |-> StreamAsset, drop_level |-> 5, price |-> 93]

\* C5 amended: window 3, zero-valued start: after 100,100,100 weekly_high is
\* 100 and stays 100 while 96, 94, 93 are fed; the update for 93 leaves the
\* window [96,94,93], in which 96 is above 95, so it sends no alert: over
\* the whole sequence no alert is sent for threshold 5 nor for threshold 10,
\* and confirmed_drops stays empty.
C5_ScenarioNoAlert ==
    LET f == fed[StreamAsset]
        n == Len(f)
    IN  FreshStream /\ n \in 3..Len(Scenario5) /\ f = SubSeq(Scenario5, 1, n) =>
            /\ market_data[StreamAsset].weekly_high = 100
            /\ AlertEvents(StreamAsset, 10) = {}
            /\ AlertEvents(StreamAsset, 5) = {}
            /\ market_data[StreamAsset].confirmed_drops = <<>>
            /\ last.alerts = <<>>
            /\ n = 6 => market_data[StreamAsset].recent_prices = <<96, 94, 93>>

\* C5 witness: the whole scenario has been fed.
C5_Witness ==
    /\ FreshStream
    /\ fed[StreamAsset] = Scenario5
    /\ last.called /\ last.price = 93

\* C6: an update empties confirmed_drops exactly when it strictly raises
\* weekly_high (a sample equal to the high changes neither); after the
\* reset the thresholds are evaluated against the new high only, so a
\* threshold confirmed in the previous epoch can fire again.
C6_ResetOnNewHigh ==
    last.called =>
        /\ Raised => Post.confirmed_drops = <<>>
        /\ ~Raised =>
              /\ Post.weekly_high = last.pre.weekly_high
              /\ IsPrefix(last.pre.confirmed_drops, Post.confirmed_drops)
        /\ last.price = last.pre.weekly_high => ~Raised
        /\ \A i \in 1..Len(last.alerts) :
              Last3Under(Post.recent_prices, Post.weekly_high,
                         last.alerts[i].drop_level)

\* C6 witness: drop 5 was confirmed at high 100; 105 made the high 105 and
\* emptied confirmed_drops; the run at 96 then fired drop 5 against 105.
C6_Witness ==
    /\ loaded[StreamAsset] = saved_drop5
    /\ fed[StreamAsset] = <<105, 96, 96, 96>>
    /\ Post.weekly_high = 105
    /\ Post.confirmed_drops = <<5>>
    /\ last.alerts = <<[asset |-> StreamAsset, drop_level |-> 5, price |-> 96]>>
    /\ \E k \in HighEvents(StreamAsset) : events[k].price = 105

----------------------------------------------------------------------------
(* Claims about the process, checked under Spec *)

InLoop == pc \in {"fetch", "got", "save", "sleep"}
CycleOver == pc \in {"save", "sleep"}
AllSet ==
    /\ env["TWILIO_SID"] /\ env["TWILIO_AUTH_TOKEN"]
    /\ env["TWILIO_PHONE"] /\ env["USER_PHONE"]
AlertsThisCycle(a) == {i \in AlertEvents(a, 5) \cup AlertEvents(a, 10)
                            \cup AlertEvents(a, 15) \cup AlertEvents(a, 20)
                            \cup AlertEvents(a, 25) : i > stats.events_at_start}

\* C7: if get_price returns failure for an asset in a cycle, that asset's
\* state is unchanged by the cycle and no alert is sent for it, and every
\* other asset of the cycle is still fetched and, on success, updated.
C7_FetchFailureIsolated ==
    InLoop =>
        /\ \A a \in stats.failed :
              /\ a \in DOMAIN market_data => market_data[a] = stats.cycle_start[a]
              /\ AlertsThisCycle(a) = {}
              /\ a \notin stats.updated
        /\ stats.failed # {} /\ CycleOver =>
              /\ stats.fetched = AssetNames
              /\ stats.updated = stats.fetched \ stats.failed

\* C8: the loop is entered only with the whole messaging configuration
\* present and exactly one self-test send, which succeeded; with missing
\* configuration or a failed self-test the process is in its fatal end, and
\* there no price was fetched, no state updated, no alert sent and nothing
\* saved, and no step follows.
C8_StartupGate ==
    /\ stats.tests <= 1
    /\ InLoop => AllSet /\ stats.tests = 1 /\ stats.test_ok
    /\ pc # "start" /\ ~AllSet => pc = "fatal" /\ stats.tests = 0
    /\ stats.tests = 1 /\ ~stats.test_ok => pc = "fatal"
    /\ pc = "fatal" =>
          /\ stats.fetches = 0 /\ stats.updates = 0 /\ stats.saves = 0
          /\ events = <<>> /\ cycle = 0
          /\ fed = [a \in AssetNames |-> <<>>]
          /\ ~ENABLED Next

\* C8 witness: the configuration was complete, the self-test failed, and
\* the process has ended without entering the loop.
C8_Witness ==
    /\ AllSet
    /\ stats.tests = 1 /\ ~stats.test_ok
    /\ pc = "fatal"
    /\ DOMAIN market_data = AssetNames

ZeroValued(r) ==
    r.weekly_high = 0 /\ r.confirmed_drops = <<>> /\ r.recent_prices = <<>>

\* C9: after load the in-memory mapping holds a state for every tracked
\* asset: the persisted record when one exists, a zero-valued state for
\* every tracked asset without one, also when the document holds only some
\* of the assets and when the load fails.
C9_LoadCoversAssets ==
    pc = "test" =>
        /\ DOMAIN market_data = AssetNames
        /\ \A a \in AssetNames :
              a \in DOMAIN market_data =>
                 IF storage.kind = "document" /\ a \in DOMAIN storage.doc
                 THEN market_data[a] = storage.doc[a]
                 ELSE ZeroValued(market_data[a])

Failures(c) == {i \in 1..Len(c) : c[i] = NoPrice}

\* C10: get_price makes at most max_retries attempts; it returns the price
\* of the first successful attempt, with no attempt after it; it returns
\* None if and only if all max_retries attempts failed; and it has slept
\* retry_delay once between two attempts and not after the last one.
C10_BoundedRetries ==
    LET c == stats.call IN
    /\ Len(c) <= max_retries
    /\ pc = "fetch" =>
          /\ Len(c) < max_retries
          /\ Failures(c) = 1..Len(c)
          /\ slept = retry_delay * Len(c)
    /\ pc = "got" =>
          /\ Len(c) >= 1
          /\ 1..(Len(c) - 1) \subseteq Failures(c)
          /\ current_price = c[Len(c)]
          /\ current_price = NoPrice <=> Failures(c) = 1..max_retries
          /\ slept = retry_delay * (Len(c) - 1)

\* C10 witness: get_price has returned None after three failed attempts
\* and two sleeps.
C10_Witness ==
    /\ pc = "got"
    /\ current_price = NoPrice
    /\ stats.call = <<NoPrice, NoPrice, NoPrice>>
    /\ slept = 2 * retry_delay

\* an alert of the current cycle whose delivery failed
FailedSends ==
    {i \in (stats.events_at_start + 1)..Len(events) :
        events[i].kind = "alert" /\ ~events[i].delivered}

\* C11: a failure of the Notifier while sending an alert does not abort the
\* cycle: the remaining thresholds of that update, the remaining assets of
\* the cycle and the end-of-cycle save are all still processed.
C11_NotifierFailureContained ==
    InLoop /\ FailedSends # {} =>
        /\ \A i \in FailedSends :
              events[i].level \in SeqToSet(market_data[events[i].asset].confirmed_drops)
        /\ last.called /\ (\E k \in 1..Len(last.delivered) : ~last.delivered[k]) =>
              \A d \in DropSet :
                  Last3Under(Post.recent_prices, Post.weekly_high, d) =>
                      d \in SeqToSet(Post.confirmed_drops)
        /\ pc = "sleep" =>
              /\ stats.fetched = AssetNames
              /\ stats.cycle_saves = 1

\* C12: in every cycle each asset's state is mutated at most once, and
\* exactly one save of the full mapping is attempted, after the last asset
\* and before the sleep; a failed save is not retried in the cycle and
\* leaves the in-memory mapping as it was, and the next cycle starts from
\* the in-memory mapping.
C12_OneUpdateOneSave ==
    InLoop =>
        /\ \A a \in DOMAIN market_data :
              IF a \in stats.updated
              THEN Len(market_data[a].recent_prices)
                       = Len(stats.cycle_start[a].recent_prices) + 1
              ELSE market_data[a] = stats.cycle_start[a]
        /\ pc \in {"fetch", "got", "save"} => stats.cycle_saves = 0
        /\ pc = "sleep" =>
              /\ stats.cycle_saves = 1
              /\ idx = Len(assets)
              /\ stats.fetched = AssetNames
        /\ pc = "fetch" /\ idx = 1 /\ attempt = 0 =>
              stats.cycle_start = market_data

\* C13: once the self-test has succeeded the scheduler never reaches a
\* terminal state, whatever fetches, alert sends and saves fail: the process
\* is never in its fatal end, a step is always possible (up to the cycle
\* bound of the model), and every cycle after the first is again one in
\* which every tracked asset is fetched.
C13_LoopNeverEnds ==
    stats.test_ok =>
        /\ InLoop
        /\ cycle <= MaxCycles
        /\ ~(pc = "sleep" /\ cycle = MaxCycles) => ENABLED Next
        /\ pc = "sleep" /\ cycle >= 2 => stats.fetched = AssetNames

----------------------------------------------------------------------------
(* Further claims about update_asset_data *)

\* the thresholds whose condition holds in the latest call
EligibleInLast ==
    LET conf == IF Raised THEN {} ELSE SeqToSet(last.pre.confirmed_drops)
    IN  {d \in DropSet :
            Last3Under(Post.recent_prices, Post.weekly_high, d) /\ d \notin conf}

\* C14: within one update every eligible threshold fires (one alert per
\* unconfirmed threshold whose condition holds, so one sample can produce
\* several alerts), the alerts of one update are emitted in strictly
\* ascending threshold order, and each carries the asset name, its
\* threshold and the current sample price.
C14_AlertsAscending ==
    last.called =>
        LET n == Len(last.alerts) IN
        /\ n = Cardinality(EligibleInLast)
        /\ \A i \in 1..n :
              /\ last.alerts[i].drop_level \in EligibleInLast
              /\ last.alerts[i].asset = last.asset
              /\ last.alerts[i].price = last.price
        /\ \A i, j \in 1..n :
              i < j => last.alerts[i].drop_level < last.alerts[j].drop_level
        /\ Len(events) >= n
        /\ \A i \in 1..n :
              LET e == events[Len(events) - n + i] IN
              /\ e.kind = "alert"
              /\ e.asset = last.asset
              /\ e.level = last.alerts[i].drop_level
              /\ e.price = last.price

\* C14 witness: one sample produced the alerts for 5% and for 10%.
C14_Witness ==
    /\ last.called
    /\ Len(last.alerts) >= 2
    /\ last.alerts[1].drop_level = 5
    /\ last.alerts[2].drop_level = 10

\* C15: while weekly_high is 0 no update emits an alert for any threshold,
\* whatever the samples (samples equal to 0 included) and the window.
C15_NoAlertWithoutHigh ==
    last.called /\ Post.weekly_high = 0 => last.alerts = <<>>

AllPositive(f) == \A i \in 1..Len(f) : f[i] > 0

\* C16: from the zero-valued state, after any sequence of positive samples
\* weekly_high equals the maximum of all samples processed so far and is >=
\* every element of recent_prices; the first sample always sets weekly_high
\* and sends no alert; and a sample above weekly_high always becomes the
\* new weekly_high (the window-maximum condition never blocks it).
C16_HighIsRunningMax ==
    LET f == fed[StreamAsset]
        d == market_data[StreamAsset]
    IN  /\ Len(f) >= 1 /\ AllPositive(f) =>
              /\ d.weekly_high = SeqMax(f)
              /\ \A i \in 1..Len(d.recent_prices) :
                     d.recent_prices[i] <= d.weekly_high
        /\ Len(f) = 1 /\ AllPositive(f) =>
              /\ d.weekly_high = f[1]
              /\ events = <<HighEvent(StreamAsset, f[1])>>
              /\ last.alerts = <<>>
        /\ last.called /\ last.price > last.pre.weekly_high =>
              Post.weekly_high = last.price

\* C16 witness: positive samples only, and the highest of them has left
\* the window while weekly_high still holds it.
C16_Witness ==
    /\ last.called
    /\ AllPositive(fed[StreamAsset])
    /\ Len(fed[StreamAsset]) > max_history_points
    /\ Post.weekly_high > SeqMax(Post.recent_prices)
    /\ Post.weekly_high = SeqMax(fed[StreamAsset])

\* C17: in every state reached from the zero-valued state with non-negative
\* samples, confirmed_drops holds only values of {5,10,15,20,25}, none
\* twice, and is a prefix of the ascending list [5,10,15,20,25].
C17_ConfirmedIsPrefix ==
    \A a \in DOMAIN market_data :
        LET cd == market_data[a].confirmed_drops IN
        /\ SeqToSet(cd) \subseteq {5, 10, 15, 20, 25}
        /\ \A i, j \in 1..Len(cd) : i # j => cd[i] # cd[j]
        /\ Len(cd) <= 5
        /\ \A i \in 1..Len(cd) : cd[i] = 5 * i

\* C17 witness: 5% and 10% are confirmed and 15% is not, after samples
\* that include a 0.
C17_Witness ==
    /\ market_data[StreamAsset].confirmed_drops = <<5, 10>>
    /\ market_data[StreamAsset].weekly_high = 105
    /\ 0 \in SeqToSet(fed[StreamAsset])

\* C18: an update with a positive sample that raises weekly_high emits no
\* alert and leaves confirmed_drops empty.
C18_NoAlertOnNewHigh ==
    last.called /\ last.price > 0 /\ Raised =>
        /\ last.alerts = <<>>
        /\ Post.confirmed_drops = <<>>
        /\ Post.weekly_high = last.price

\* C18 witness: the window is full, a threshold was confirmed before the
\* call, and the call raised the high.
C18_Witness ==
    /\ last.called /\ last.price > 0 /\ Raised
    /\ Len(Post.recent_prices) >= 3
    /\ last.pre.confirmed_drops # <<>>
    /\ last.pre.weekly_high > 0

\* alerts whose delivery failed and after which the asset's high has not
\* been raised
FailedInEpoch ==
    {i \in 1..Len(events) :
        /\ events[i].kind = "alert"
        /\ ~events[i].delivered
        /\ \A k \in HighEvents(events[i].asset) : k < i}

\* C19: when the delivery of an alert for threshold d fails, d is still
\* added to confirmed_drops in the same update, and the alert for d is not
\* attempted again on any later update until weekly_high increases.
C19_FailedAlertNotRetried ==
    /\ \A i \in FailedInEpoch :
          /\ events[i].level \in
                 SeqToSet(market_data[events[i].asset].confirmed_drops)
          /\ \A j \in AlertEvents(events[i].asset, events[i].level) : j <= i
    /\ last.called =>
          \A k \in 1..Len(last.alerts) :
              ~last.delivered[k] =>
                  last.alerts[k].drop_level \in SeqToSet(Post.confirmed_drops)

\* C19 witness: the delivery of the 5% alert failed in an earlier call; in
\* the latest call, in the same epoch, the condition for 5% still holds and
\* nothing is sent.
C19_Witness ==
    /\ last.called
    /\ last.alerts = <<>>
    /\ Last3Under(Post.recent_prices, Post.weekly_high, 5)
    /\ \E i \in FailedInEpoch :
          events[i].asset = last.asset /\ events[i].level = 5

----------------------------------------------------------------------------
(* Persistence *)

\* what a restart of the process would load from the file now
Persisted == load_market_data(storage, 0)
Core(r) == <<r.weekly_high, r.confirmed_drops, r.recent_prices>>
\* the file is behind the memory by at most the updates of the current cycle
AtMostThisCycleBehind ==
    /\ DOMAIN Persisted = DOMAIN market_data
    /\ \A a \in DOMAIN market_data :
          \/ Core(Persisted[a]) = Core(market_data[a])
          \/ Core(Persisted[a]) = Core(stats.cycle_start[a])

\* the samples of asset a that the memory holds and the file does not; no
\* sample leaves the window within the cycles explored, so the lengths count
\* the updates
NotPersisted(a) ==
    Len(market_data[a].recent_prices) - Len(Persisted[a].recent_prices)

====
